---- MODULE Spec2Model ----
(***************************************************************************)
(* QID: the vector index (VectorStore), the metadata table                 *)
(* (MetadataStore), the index cleaner (IndexCleaner) and the ingestion     *)
(* pipeline (BatchIndexer), as a state machine.                            *)
(*                                                                         *)
(* A vector is identified by the image it embeds (its absolute path), or   *)
(* by ZeroVec for the placeholder the encoder substitutes for an image it  *)
(* cannot open.  A metadata row keeps the columns the operations read or   *)
(* write: vector_id, file_path, tags, description.                         *)
(*                                                                         *)
(* StoreSpec: any sequence of calls of the methods of VectorStore,         *)
(*   MetadataStore and IndexCleaner on one instance of each.               *)
(* Spec: BatchIndexer.index_directory running step by step (one step per   *)
(*   store mutation), with files disappearing or going bad, the cancel     *)
(*   button and the process dying and restarting in between.               *)
(* AppSpec: index_directory, reindex_all and index_single_image called one *)
(*   after the other, with files disappearing and the process dying and    *)
(*   restarting in between.                                                *)
(* E2ESpec: index_directory, over and over, on a fresh installation and a  *)
(*   directory of twelve files of which two do not decode.                 *)
(* SearchSpec: VectorStore.search on a store holding any embeddings.       *)
(* AdaptiveSpec: SearchEngine._apply_adaptive_threshold on any descending  *)
(*   list of scores.                                                       *)
(* ConcSpec: searches from the window while index_directory runs, the      *)
(*   process dying and restarting in between.                              *)
(* GuiSpec: the window's commands (close the dialog, clear the database)   *)
(*   while index_directory runs.                                           *)
(* EngineSpec: one call of SearchEngine.search on stores holding any       *)
(*   embeddings and any rows.                                              *)
(***************************************************************************)
EXTENDS Integers, Sequences, FiniteSets, TLC

\* ---------------------------------------------------------------- bounds
MaxVectors == 2
MaxAdd == 2
BatchSize == 1

\* ------------------------------------------------------------ the world
NoneV == "None"
ZeroVec == "zero"
AbsPaths == {"/w/a.jpg", "/w/b.jpg"}
RelPaths == {"a.jpg"}
Paths == AbsPaths \cup RelPaths
DirListing == <<"/w/a.jpg", "/w/b.jpg">>
\* a second directory: twelve image files, in listing order
E2EListing ==
    <<"/e/01.jpg", "/e/02.jpg", "/e/03.jpg", "/e/04.jpg", "/e/05.jpg", "/e/06.jpg",
      "/e/07.jpg", "/e/08.jpg", "/e/09.jpg", "/e/10.jpg", "/e/11.jpg", "/e/12.jpg">>
TagVals == {NoneV, "t"}
DescVals == {NoneV, "d"}

VARIABLES
    index,        \* VectorStore.index: the vectors FAISS holds, in id order
    num_vectors,  \* VectorStore.num_vectors
    file,         \* the index file on disk
    rows,         \* MetadataStore: the rows of table images
    fs,           \* the image files on disk: "ok", "bad" (undecodable), "gone"
    run,          \* the index_directory call in progress
    cancel,       \* the dialog's Close button was pressed during the run
    issued,       \* highest id an add returned (since clear / since clear or load)
    ret           \* what the last operation returned

vars == <<index, num_vectors, file, rows, fs, run, cancel, issued, ret>>

\* ------------------------------------------------------------- helpers
Max0(x) == IF x > 0 THEN x ELSE 0

Min(a, b) == IF a < b THEN a ELSE b

SeqMax(s, d) == IF Len(s) = 0 THEN d ELSE s[Len(s)]

\* Path.absolute(): a relative path is resolved against the working directory
Absolute(p) == IF p \in RelPaths THEN "/w/" \o p ELSE p

\* Path.exists()
Exists(p) == fs[Absolute(p)] # "gone"

Ret(op, arg, val) == [op |-> op, arg |-> arg, val |-> val]

\* ---------------------------------------------------------- VectorStore
\* ids = list(range(start_id, self.num_vectors))
VSAddIds_OffByOne(start_id, n) == [j \in 1..n |-> start_id + j]

VSAddIds(start_id, n) == [j \in 1..n |-> start_id + j - 1]

\* self.num_vectors += len(embeddings)
VSAddCount_Stale(nv, n) == nv

VSAddCount(nv, n) == nv + n

\* history of add(): the highest id returned since the last clear(), and since
\* the last clear() or successful load()
IssuedAfterAdd(ids) ==
    [clear |-> SeqMax(ids, issued.clear), load |-> SeqMax(ids, issued.load)]

\* VectorStore.add(embeddings)
VSAdd(vecs) ==
    /\ num_vectors + Len(vecs) <= MaxVectors
    /\ index' = index \o vecs
    /\ num_vectors' = VSAddCount(num_vectors, Len(vecs))
    /\ ret' = Ret("vs_add", Len(vecs), VSAddIds(num_vectors, Len(vecs)))
    /\ issued' = IssuedAfterAdd(VSAddIds(num_vectors, Len(vecs)))
    /\ UNCHANGED <<file, rows, fs, run, cancel>>

\* VectorStore.save(path): faiss.write_index
VSSave ==
    /\ file' = [st |-> "ok", data |-> index]
    /\ ret' = Ret("vs_save", NoneV, NoneV)
    /\ UNCHANGED <<index, num_vectors, rows, fs, run, cancel, issued>>

\* VectorStore.load(path): a missing or unreadable file leaves the store as it is
VSLoad_StaleCount ==
    /\ IF file.st = "ok"
       THEN /\ index' = file.data
            /\ issued' = [issued EXCEPT !.load = -1]
       ELSE UNCHANGED <<index, issued>>
    /\ UNCHANGED num_vectors
    /\ ret' = Ret("vs_load", NoneV, NoneV)
    /\ UNCHANGED <<file, rows, fs, run, cancel>>

VSLoad ==
    /\ IF file.st = "ok"
       THEN /\ index' = file.data
            /\ num_vectors' = Len(file.data)
            /\ issued' = [issued EXCEPT !.load = -1]
       ELSE UNCHANGED <<index, num_vectors, issued>>
    /\ ret' = Ret("vs_load", NoneV, NoneV)
    /\ UNCHANGED <<file, rows, fs, run, cancel>>

\* VectorStore.clear()
VSClear ==
    /\ index' = <<>>
    /\ num_vectors' = 0
    /\ issued' = [clear |-> -1, load |-> -1]
    /\ ret' = Ret("vs_clear", NoneV, NoneV)
    /\ UNCHANGED <<file, rows, fs, run, cancel>>

\* -------------------------------------------------------- MetadataStore
Row(vid, p, t, d) ==
    [vector_id |-> vid, file_path |-> p, tags |-> t, description |-> d]

\* the constraints of table images: vector_id PRIMARY KEY, file_path UNIQUE
MDConflict_NoUnique(rs, vid, p) == \E r \in rs : r.vector_id = vid

MDConflict_NoPrimaryKey(rs, vid, p) == \E r \in rs : r.file_path = Absolute(p)

MDConflict(rs, vid, p) ==
    \E r \in rs : r.vector_id = vid \/ r.file_path = Absolute(p)

\* MetadataStore.add: the INSERT, or False on IntegrityError / any exception
MDAddOk(rs, vid, p, dbfail) == ~dbfail /\ ~MDConflict(rs, vid, p)

MDAddRows(rs, vid, p, t, d, dbfail) ==
    IF MDAddOk(rs, vid, p, dbfail)
    THEN rs \cup {Row(vid, Absolute(p), t, d)}
    ELSE rs

MDAdd(vid, p, t, d, dbfail) ==
    /\ rows' = MDAddRows(rows, vid, p, t, d, dbfail)
    /\ ret' = Ret("md_add", p, MDAddOk(rows, vid, p, dbfail))
    /\ UNCHANGED <<index, num_vectors, file, fs, run, cancel, issued>>

\* MetadataStore.add_batch: add() per record, counting the successes
RECURSIVE MDAddBatchRows(_, _)
MDAddBatchRows(rs, recs) ==
    IF recs = <<>> THEN rs
    ELSE MDAddBatchRows(
            MDAddRows(rs, recs[1].vector_id, recs[1].file_path,
                      recs[1].tags, recs[1].description, FALSE),
            Tail(recs))

RECURSIVE MDAddBatchCount(_, _)
MDAddBatchCount(rs, recs) ==
    IF recs = <<>> THEN 0
    ELSE (IF MDAddOk(rs, recs[1].vector_id, recs[1].file_path, FALSE)
          THEN 1 ELSE 0)
         + MDAddBatchCount(
              MDAddRows(rs, recs[1].vector_id, recs[1].file_path,
                        recs[1].tags, recs[1].description, FALSE),
              Tail(recs))

MDAddBatch(recs) ==
    /\ rows' = MDAddBatchRows(rows, recs)
    /\ ret' = Ret("md_add_batch", Len(recs), MDAddBatchCount(rows, recs))
    /\ UNCHANGED <<index, num_vectors, file, fs, run, cancel, issued>>

\* MetadataStore.update_tags: UPDATE ... WHERE vector_id = ?
MDUpdateTags(vid, t) ==
    /\ rows' = {IF r.vector_id = vid THEN [r EXCEPT !.tags = t] ELSE r : r \in rows}
    /\ ret' = Ret("md_update_tags", NoneV, TRUE)
    /\ UNCHANGED <<index, num_vectors, file, fs, run, cancel, issued>>

\* MetadataStore.update_description
MDUpdateDescription(vid, d) ==
    /\ rows' = {IF r.vector_id = vid THEN [r EXCEPT !.description = d] ELSE r
                : r \in rows}
    /\ ret' = Ret("md_update_description", NoneV, TRUE)
    /\ UNCHANGED <<index, num_vectors, file, fs, run, cancel, issued>>

\* MetadataStore.delete: DELETE ... WHERE vector_id = ?; False on an exception
MDDeleteRows(rs, vids) == {r \in rs : r.vector_id \notin vids}

MDDelete_DropsVector(vid, dbfail) ==
    /\ rows' = IF dbfail THEN rows ELSE MDDeleteRows(rows, {vid})
    /\ index' = IF Len(index) > 0 THEN SubSeq(index, 1, Len(index) - 1) ELSE index
    /\ num_vectors' = Max0(num_vectors - 1)
    /\ ret' = Ret("md_delete", NoneV, ~dbfail)
    /\ UNCHANGED <<file, fs, run, cancel, issued>>

MDDelete(vid, dbfail) ==
    /\ rows' = IF dbfail THEN rows ELSE MDDeleteRows(rows, {vid})
    /\ ret' = Ret("md_delete", NoneV, ~dbfail)
    /\ UNCHANGED <<index, num_vectors, file, fs, run, cancel, issued>>

\* MetadataStore.clear(): DELETE FROM images
MDClearRows_Keeps(rs) == rs

MDClearRows(rs) == {}

MDClear ==
    /\ rows' = MDClearRows(rows)
    /\ ret' = Ret("md_clear", NoneV, NoneV)
    /\ UNCHANGED <<index, num_vectors, file, fs, run, cancel, issued>>

\* --------------------------------------------------------- IndexCleaner
\* IndexCleaner.scan_for_missing: the rows whose file_path does not exist
MissingRows(rs) == {r \in rs : ~Exists(r.file_path)}

ScanForMissing(rs) ==
    [total |-> Cardinality(rs),
     found |-> Cardinality(rs \ MissingRows(rs)),
     missing |-> Cardinality(MissingRows(rs)),
     missing_ids |-> {r.vector_id : r \in MissingRows(rs)},
     missing_paths |-> {r.file_path : r \in MissingRows(rs)}]

\* the ids clean_missing hands to MetadataStore.delete
CleanTargets_IgnoreDryRun(rs, dry_run) == ScanForMissing(rs).missing_ids

CleanTargets(rs, dry_run) ==
    IF dry_run THEN {} ELSE ScanForMissing(rs).missing_ids

\* the ids whose delete() returned True; failing: the ids whose delete() fails
CleanRemoved_AlsoFailed(rs, dry_run, failing) == CleanTargets(rs, dry_run)

CleanRemoved(rs, dry_run, failing) == CleanTargets(rs, dry_run) \ failing

CleanRows(rs, dry_run, failing) ==
    MDDeleteRows(rs, CleanRemoved(rs, dry_run, failing))

\* IndexCleaner.clean_missing: the results dictionary
CleanResults(rs, dry_run, failing) ==
    [scanned |-> ScanForMissing(rs).total,
     missing |-> ScanForMissing(rs).missing,
     removed |-> Cardinality(CleanRemoved(rs, dry_run, failing)),
     failed |-> Cardinality(CleanTargets(rs, dry_run) \cap failing),
     remaining |-> ScanForMissing(rs).total
                     - Cardinality(CleanRemoved(rs, dry_run, failing))]

CleanMissing(dry_run, failing) ==
    /\ rows' = CleanRows(rows, dry_run, failing)
    /\ ret' = Ret("clean_missing", dry_run, CleanResults(rows, dry_run, failing))
    /\ UNCHANGED <<index, num_vectors, file, fs, run, cancel, issued>>

\* IndexCleaner.get_orphaned_vectors
OrphanCount_NoClamp(vector_count, metadata_count) == vector_count - metadata_count

OrphanCount(vector_count, metadata_count) == Max0(vector_count - metadata_count)

GetOrphanedVectors ==
    /\ ret' = Ret("get_orphaned_vectors", NoneV, OrphanCount(num_vectors, Cardinality(rows)))
    /\ UNCHANGED <<index, num_vectors, file, rows, fs, run, cancel, issued>>

\* IndexCleaner.validate_database_integrity: the report
IntegrityReport(vector_count, rs) ==
    [vector_count |-> vector_count,
     metadata_count |-> Cardinality(rs),
     orphaned_vectors |-> OrphanCount(vector_count, Cardinality(rs)),
     missing_files |-> ScanForMissing(rs).missing,
     is_healthy |-> OrphanCount(vector_count, Cardinality(rs)) = 0
                      /\ ScanForMissing(rs).missing = 0]

\* ------------------------------------------------------ the environment
\* an image file is deleted or moved outside the application
FileDeleted(p) ==
    /\ fs[p] # "gone"
    /\ fs' = [fs EXCEPT ![p] = "gone"]
    /\ UNCHANGED <<index, num_vectors, file, rows, run, cancel, issued, ret>>

\* an image file is overwritten with bytes that do not decode
FileCorrupted(p) ==
    /\ fs[p] = "ok"
    /\ fs' = [fs EXCEPT ![p] = "bad"]
    /\ UNCHANGED <<index, num_vectors, file, rows, run, cancel, issued, ret>>

\* ----------------------------------------------------------- the system
ZeroStats ==
    [found |-> 0, valid |-> 0, new |-> 0, processed |-> 0, failed |-> 0, cleaned |-> 0]

IdleRun ==
    [pc |-> "idle", paths |-> <<>>, i |-> 0, vector_ids |-> <<>>, k |-> 0,
     stats |-> ZeroStats, synced |-> TRUE, entry |-> NoneV]

StoreInit ==
    /\ index = <<>>
    /\ num_vectors = 0
    /\ file = [st |-> "missing", data |-> <<>>]
    /\ rows = {}
    /\ fs = [p \in AbsPaths |-> "ok"]
    /\ run = IdleRun
    /\ cancel = FALSE
    /\ issued = [clear |-> -1, load |-> -1]
    /\ ret = Ret("init", NoneV, NoneV)

\* an embedding handed to add() by a caller, not tied to an image file
AnyVec == "x"
AddInputs == {[j \in 1..n |-> AnyVec] : n \in 0..MaxAdd}

RecInputs == {Row(vid, p, NoneV, NoneV) : vid \in 0..1, p \in AbsPaths}
BatchInputs == [1..2 -> RecInputs]

StoreNext ==
    \/ \E vecs \in AddInputs : VSAdd(vecs)
    \/ VSSave
    \/ VSLoad
    \/ VSClear
    \/ \E vid \in 0..(MaxVectors - 1), p \in Paths, t \in TagVals, dbfail \in BOOLEAN :
          MDAdd(vid, p, t, NoneV, dbfail)
    \/ \E vid \in 0..(MaxVectors - 1), t \in TagVals : MDUpdateTags(vid, t)
    \/ \E vid \in 0..(MaxVectors - 1), d \in DescVals : MDUpdateDescription(vid, d)
    \/ \E vid \in 0..(MaxVectors - 1), dbfail \in BOOLEAN : MDDelete(vid, dbfail)
    \/ MDClear
    \/ \E recs \in BatchInputs : MDAddBatch(recs)
    \/ \E dry_run \in BOOLEAN, failing \in SUBSET ScanForMissing(rows).missing_ids :
          CleanMissing(dry_run, failing)
    \/ GetOrphanedVectors
    \/ \E p \in AbsPaths : FileDeleted(p)

StoreSpec == StoreInit /\ [][StoreNext]_vars

\* -------------------------------------------------------- BatchIndexer
\* ImageProcessor.find_images: the files of the directory, in listing order
\* (the directory is the one whose files fs describes)
FindImages ==
    SelectSeq(DirListing \o E2EListing, LAMBDA p : p \in DOMAIN fs /\ fs[p] # "gone")

\* the size a run may bring the index to
Capacity ==
    IF Cardinality(DOMAIN fs) > MaxVectors THEN Cardinality(DOMAIN fs) ELSE MaxVectors

\* ImageProcessor.validate_batch: the images that open and decode
ValidPaths_KeepsCorrupt(paths) == paths

ValidPaths(paths) == SelectSeq(paths, LAMBDA p : fs[p] = "ok")

\* ImageProcessor.filter_existing
FilterExisting(paths, existing_paths) ==
    SelectSeq(paths, LAMBDA p : Absolute(p) \notin existing_paths)

\* ImageEncoder._encode_batch_internal: an image that cannot be opened is
\* replaced by a zero tensor
Encode(p) == IF fs[p] = "ok" THEN p ELSE ZeroVec

\* the restored index of a new process: QIDAppQt._init_components
RestoredIndex_TrustsFile(f) == f.data

RestoredIndex(f) == IF f.st = "ok" THEN f.data ELSE <<>>

\* index and table agree, and the file on disk holds the index
InSync ==
    /\ RestoredIndex(file) = index
    /\ \A r \in rows : r.vector_id < num_vectors
    /\ Cardinality(rows) <= num_vectors

\* index_directory, steps 0 to 3: clean, find, validate, filter
IDAfterClean(clean_missing, failing) ==
    IF clean_missing THEN CleanRows(rows, FALSE, failing) ELSE rows

IDCandidates(validate) ==
    IF validate THEN ValidPaths(FindImages) ELSE FindImages

IDNewPaths(validate, skip_existing, rs) ==
    IF skip_existing
    THEN FilterExisting(IDCandidates(validate), {r.file_path : r \in rs})
    ELSE IDCandidates(validate)

IDStats(validate, skip_existing, clean_missing, failing) ==
    [found |-> Len(FindImages),
     valid |-> IF FindImages = <<>> THEN 0 ELSE Len(IDCandidates(validate)),
     new |-> IF FindImages = <<>> THEN 0
             ELSE Len(IDNewPaths(validate, skip_existing,
                                 IDAfterClean(clean_missing, failing))),
     processed |-> 0,
     failed |-> IF validate THEN Len(FindImages) - Len(ValidPaths(FindImages)) ELSE 0,
     cleaned |-> IF clean_missing
                 THEN CleanResults(rows, FALSE, failing).removed ELSE 0]

IDStart(validate, skip_existing, clean_missing, failing) ==
    /\ run.pc = "idle"
    /\ clean_missing \/ failing = {}
    /\ num_vectors
         + Len(IDNewPaths(validate, skip_existing, IDAfterClean(clean_missing, failing)))
         <= Capacity
    /\ rows' = IDAfterClean(clean_missing, failing)
    /\ IF FindImages = <<>> \/ IDNewPaths(validate, skip_existing, rows') = <<>>
       THEN /\ run' = IdleRun
            /\ ret' = Ret("index_directory", NoneV,
                          IDStats(validate, skip_existing, clean_missing, failing))
       ELSE /\ run' = [pc |-> "batch",
                       paths |-> IDNewPaths(validate, skip_existing, rows'),
                       i |-> 0, vector_ids |-> <<>>, k |-> 0,
                       stats |-> IDStats(validate, skip_existing, clean_missing, failing),
                       synced |-> InSync, entry |-> "index_directory"]
            /\ ret' = Ret("running", NoneV, NoneV)
    /\ UNCHANGED <<index, num_vectors, file, fs, cancel, issued>>

\* batch_paths = image_paths[i:i + self.batch_size]
BatchPaths(r) == SubSeq(r.paths, r.i + 1, Min(r.i + BatchSize, Len(r.paths)))

\* _process_batch, except Exception: log and continue with the next batch
AfterFailedBatch_Breaks(r) == [r EXCEPT !.i = Len(r.paths)]

AfterFailedBatch_Propagates(r) == IdleRun

AfterFailedBatch(r) == [r EXCEPT !.i = r.i + BatchSize]

\* _process_batch, one iteration up to vector_store.add; an exception in the
\* encoder or the index skips the batch
IDBatchAdd(raises) ==
    /\ run.pc = "batch"
    /\ run.i < Len(run.paths)
    /\ IF raises
       THEN /\ run' = AfterFailedBatch(run)
            /\ UNCHANGED <<index, num_vectors, issued>>
       ELSE /\ index' = index \o [j \in 1..Len(BatchPaths(run)) |-> Encode(BatchPaths(run)[j])]
            /\ num_vectors' = VSAddCount(num_vectors, Len(BatchPaths(run)))
            /\ issued' = IssuedAfterAdd(VSAddIds(num_vectors, Len(BatchPaths(run))))
            /\ run' = [run EXCEPT !.pc = "meta", !.k = 1,
                         !.vector_ids = VSAddIds(num_vectors, Len(BatchPaths(run)))]
    /\ UNCHANGED <<file, rows, fs, cancel, ret>>

\* _process_batch, one metadata_store.add of the zip(vector_ids, batch_paths) loop
IDBatchMeta(dbfail) ==
    /\ run.pc = "meta"
    /\ rows' = MDAddRows(rows, run.vector_ids[run.k], BatchPaths(run)[run.k],
                         NoneV, NoneV, dbfail)
    /\ run' = [run EXCEPT
                 !.stats.processed =
                     @ + (IF MDAddOk(rows, run.vector_ids[run.k],
                                     BatchPaths(run)[run.k], dbfail) THEN 1 ELSE 0),
                 !.k = IF run.k = Len(run.vector_ids) THEN 0 ELSE run.k + 1,
                 !.pc = IF run.k = Len(run.vector_ids) THEN "batch" ELSE "meta",
                 !.i = IF run.k = Len(run.vector_ids) THEN run.i + BatchSize ELSE run.i,
                 !.vector_ids = IF run.k = Len(run.vector_ids) THEN <<>> ELSE @]
    /\ UNCHANGED <<index, num_vectors, file, fs, cancel, issued, ret>>

\* the batch loop is over and _save_all is about to write the index file
AtSave == run.pc = "batch" /\ run.i >= Len(run.paths)

\* index_directory, step 5 and return; a failed write raises to the caller
IDSave(write_ok) ==
    /\ AtSave
    /\ file' = IF write_ok THEN [st |-> "ok", data |-> index] ELSE file
    /\ ret' = IF write_ok THEN Ret(run.entry, NoneV, run.stats)
               ELSE Ret("raised", run.entry, NoneV)
    /\ run' = IdleRun
    /\ cancel' = FALSE
    /\ UNCHANGED <<index, num_vectors, rows, fs, issued>>

\* reindex_all: vector_store.clear(), metadata_store.clear(), then
\* index_directory(skip_existing=False, clean_missing=False) up to its step 3
ReindexAll ==
    /\ run.pc = "idle"
    /\ index' = <<>>
    /\ num_vectors' = 0
    /\ issued' = [clear |-> -1, load |-> -1]
    /\ rows' = MDClearRows(rows)
    /\ IF FindImages = <<>> \/ IDNewPaths(TRUE, FALSE, rows') = <<>>
       THEN /\ run' = IdleRun
            /\ ret' = Ret("reindex_all", NoneV, IDStats(TRUE, FALSE, FALSE, {}))
       ELSE /\ run' = [pc |-> "batch",
                       paths |-> IDNewPaths(TRUE, FALSE, rows'),
                       i |-> 0, vector_ids |-> <<>>, k |-> 0,
                       stats |-> IDStats(TRUE, FALSE, FALSE, {}),
                       synced |-> (RestoredIndex(file) = <<>>),
                       entry |-> "reindex_all"]
            /\ ret' = Ret("running", NoneV, NoneV)
    /\ UNCHANGED <<file, fs, cancel>>

\* index_single_image returns False before touching a store: the path is
\* recorded, the file does not validate, or the encoder raises
ISISkips(p, raises) ==
    \/ \E r \in rows : r.file_path = Absolute(p)
    \/ fs[Absolute(p)] # "ok"
    \/ raises

\* index_single_image(image_path): exists, validate_image, encode_image,
\* vector_store.add, metadata_store.add
IndexSingleImage(p, raises, dbfail) ==
    /\ run.pc = "idle"
    /\ IF ISISkips(p, raises)
       THEN /\ ret' = Ret("index_single_image", p, FALSE)
            /\ UNCHANGED <<index, num_vectors, rows, issued>>
       ELSE /\ num_vectors + 1 <= Capacity
            /\ index' = Append(index, Encode(Absolute(p)))
            /\ num_vectors' = VSAddCount(num_vectors, 1)
            /\ issued' = IssuedAfterAdd(VSAddIds(num_vectors, 1))
            /\ rows' = MDAddRows(rows, VSAddIds(num_vectors, 1)[1], p, NoneV, NoneV, dbfail)
            /\ ret' = Ret("index_single_image", p,
                          MDAddOk(rows, VSAddIds(num_vectors, 1)[1], p, dbfail))
    /\ UNCHANGED <<file, fs, run, cancel>>

\* the dialog's cancel_button (Close) is pressed while the run is in progress
CancelClicked ==
    /\ run.pc # "idle"
    /\ ~cancel
    /\ cancel' = TRUE
    /\ UNCHANGED <<index, num_vectors, file, rows, fs, run, issued, ret>>

\* the process dies and is started again: a new VectorStore loads the index
\* file if it can, the table is the database on disk.  torn: the process died
\* inside faiss.write_index
Crash(torn) ==
    /\ torn => AtSave
    /\ file' = IF torn THEN [st |-> "corrupt", data |-> index] ELSE file
    /\ index' = RestoredIndex(file')
    /\ num_vectors' = Len(RestoredIndex(file'))
    /\ run' = IdleRun
    /\ cancel' = FALSE
    /\ issued' = [clear |-> -1, load |-> -1]
    /\ ret' = Ret("restart", NoneV, NoneV)
    /\ UNCHANGED <<rows, fs>>

Init == StoreInit

Next ==
    \/ \E validate \in BOOLEAN, skip_existing \in BOOLEAN, clean_missing \in BOOLEAN,
          failing \in SUBSET ScanForMissing(rows).missing_ids :
          IDStart(validate, skip_existing, clean_missing, failing)
    \/ \E raises \in BOOLEAN : IDBatchAdd(raises)
    \/ \E dbfail \in BOOLEAN : IDBatchMeta(dbfail)
    \/ \E write_ok \in BOOLEAN : IDSave(write_ok)
    \/ CancelClicked
    \/ \E torn \in BOOLEAN : Crash(torn)
    \/ \E p \in AbsPaths : FileDeleted(p)
    \/ \E p \in AbsPaths : FileCorrupted(p)

Spec == Init /\ [][Next]_vars

\* the three entry points of BatchIndexer (index_directory, reindex_all,
\* index_single_image) called one after the other, the process dying and
\* restarting and files disappearing in between
AppNext ==
    \/ \E validate \in BOOLEAN, skip_existing \in BOOLEAN, clean_missing \in BOOLEAN,
          failing \in SUBSET ScanForMissing(rows).missing_ids :
          IDStart(validate, skip_existing, clean_missing, failing)
    \/ \E raises \in BOOLEAN : IDBatchAdd(raises)
    \/ \E dbfail \in BOOLEAN : IDBatchMeta(dbfail)
    \/ \E write_ok \in BOOLEAN : IDSave(write_ok)
    \/ ReindexAll
    \/ \E p \in Paths, raises \in BOOLEAN, dbfail \in BOOLEAN :
          IndexSingleImage(p, raises, dbfail)
    \/ \E torn \in BOOLEAN : Crash(torn)
    \/ \E p \in AbsPaths : FileDeleted(p)

AppSpec == Init /\ [][AppNext]_vars

\* ------------------------------------------------------------- search
\* Scores are hundredths.  Sim is the inner product of the unit vectors of a
\* query and of an indexed embedding: a query matches the image it describes,
\* the placeholder's embedding points away from every query.
MaxIndexLen == 3

Metrics == {"cosine", "l2"}
Queries == {"qa", "qb"}
TopKs == {1, 2, 4}
Thresholds == {0, 50}

Sim(q, v) ==
    IF v = ZeroVec THEN -10
    ELSE IF v = AnyVec THEN 60
    ELSE IF (q = "qa" /\ v = "/w/a.jpg") \/ (q = "qb" /\ v = "/w/b.jpg") THEN 90
    ELSE 40

\* what the FAISS index computes for one vector: IndexFlatIP the inner
\* product, IndexFlatL2 the squared distance (2 - 2 * inner product for unit
\* vectors)
FaissScore(metric, q, v) ==
    IF metric = "cosine" THEN Sim(q, v) ELSE 200 - 2 * Sim(q, v)

\* IndexFlatIP lists the largest inner products first, IndexFlatL2 the
\* smallest distances first
FaissBefore(metric, s1, s2) == IF metric = "cosine" THEN s1 > s2 ELSE s1 < s2

\* the filler of a result shorter than k: id -1, score -FLT_MAX or FLT_MAX
FaissPad(metric) == <<-1, IF metric = "cosine" THEN -100000 ELSE 100000>>

\* index.search(query, k): k (id, score) pairs, best first, equal scores in
\* id order, padded when the index holds fewer than k vectors
RECURSIVE FaissSearch(_, _, _, _, _)
FaissSearch(metric, idx, q, k, left) ==
    IF k = 0 THEN <<>>
    ELSE IF left = {} THEN [j \in 1..k |-> FaissPad(metric)]
    ELSE LET sc(i) == FaissScore(metric, q, idx[i + 1])
             best == CHOOSE i \in left :
                        \A j \in left \ {i} :
                            FaissBefore(metric, sc(i), sc(j)) \/ (sc(i) = sc(j) /\ i < j)
         IN  <<<<best, sc(best)>>>> \o FaissSearch(metric, idx, q, k - 1, left \ {best})

\* VectorStore.search: empty store, index.search, the filter on threshold and -1
VSSearchHits(metric, idx, nv, q, k, threshold) ==
    IF nv = 0 THEN <<>>
    ELSE SelectSeq(FaissSearch(metric, idx, q, k, 0..(Len(idx) - 1)),
                   LAMBDA h : h[2] >= threshold /\ h[1] # -1)

VSSearchResult(metric, idx, nv, q, k, threshold) ==
    LET hits == VSSearchHits(metric, idx, nv, q, k, threshold)
    IN  [ids |-> [i \in 1..Len(hits) |-> hits[i][1]],
         scores |-> [i \in 1..Len(hits) |-> hits[i][2]]]

\* metric is VectorStore.metric, fixed when the store is constructed and read
\* by nothing but the choice of the FAISS index
VSSearch(metric, q, k, threshold) ==
    /\ ret' = Ret("vs_search",
                  [metric |-> metric, q |-> q, top_k |-> k, threshold |-> threshold],
                  VSSearchResult(metric, index, num_vectors, q, k, threshold))
    /\ UNCHANGED <<index, num_vectors, file, rows, fs, run, cancel, issued>>

\* a store that holds any embeddings up to MaxIndexLen, and searches of it
IndexInputs ==
    UNION {[1..n -> AbsPaths \cup {ZeroVec}] : n \in 0..MaxIndexLen}

SearchInit ==
    /\ index \in IndexInputs
    /\ num_vectors = Len(index)
    /\ file = [st |-> "missing", data |-> <<>>]
    /\ rows = {}
    /\ fs = [p \in AbsPaths |-> "ok"]
    /\ run = IdleRun
    /\ cancel = FALSE
    /\ issued = [clear |-> -1, load |-> num_vectors - 1]
    /\ ret = Ret("init", NoneV, NoneV)

SearchNext ==
    \E metric \in Metrics, q \in Queries, k \in TopKs, threshold \in Thresholds :
        VSSearch(metric, q, k, threshold)

SearchSpec == SearchInit /\ [][SearchNext]_vars

\* ------------------------------------------- adaptive relevance filter
\* SearchEngine._apply_adaptive_threshold on a list of scores (hundredths);
\* the indices it returns count from 0
MaxScores == 4

GapThreshold == 8
MaxKeep == 20
MinKeep == 3

ScoreVals == {95, 93, 87, 79, 76, 75, 70, 62, 54, 50, 49, 46, 42, 40, 38, 34, 30, 29}

\* relative_threshold = top_score * band, band in percent
AdaptiveBand_AlwaysStrict(top_score) == 80

AdaptiveBand(top_score) ==
    IF top_score > 70 THEN 80 ELSE IF top_score > 50 THEN 70 ELSE 60

\* score_drop > gap_threshold
GapTooBig(scores, i) == i > 1 /\ scores[i - 1] - scores[i] > GapThreshold

\* the for loop: keep_indices when it ends or breaks
RECURSIVE AdaptiveLoop_NoCap(_, _, _)
AdaptiveLoop_NoCap(scores, i, keep_indices) ==
    IF i > Len(scores) THEN keep_indices
    ELSE IF 100 * scores[i] < AdaptiveBand(scores[1]) * scores[1] THEN keep_indices
    ELSE IF GapTooBig(scores, i) THEN keep_indices
    ELSE AdaptiveLoop_NoCap(scores, i + 1, Append(keep_indices, i - 1))

RECURSIVE AdaptiveLoop(_, _, _)
AdaptiveLoop(scores, i, keep_indices) ==
    IF i > Len(scores) THEN keep_indices
    ELSE IF 100 * scores[i] < AdaptiveBand(scores[1]) * scores[1] THEN keep_indices
    ELSE IF GapTooBig(scores, i) THEN keep_indices
    ELSE IF Len(keep_indices) + 1 >= MaxKeep THEN Append(keep_indices, i - 1)
    ELSE AdaptiveLoop(scores, i + 1, Append(keep_indices, i - 1))

FirstIndices(n) == [j \in 1..n |-> j - 1]

\* the list returned: the loop's, or the first 3 (or all of fewer than 3)
AdaptiveKeep_NoMinimum(scores) ==
    IF Len(scores) < 2 THEN FirstIndices(Len(scores))
    ELSE AdaptiveLoop(scores, 1, <<>>)

AdaptiveKeep(scores) ==
    IF Len(scores) < 2 THEN FirstIndices(Len(scores))
    ELSE LET keep_indices == AdaptiveLoop(scores, 1, <<>>)
         IN  IF Len(keep_indices) < MinKeep /\ Len(scores) >= MinKeep
             THEN FirstIndices(MinKeep)
             ELSE IF Len(keep_indices) < Len(scores) /\ Len(scores) < MinKeep
             THEN FirstIndices(Len(scores))
             ELSE keep_indices

ApplyAdaptiveThreshold ==
    /\ ret.op = "scores"
    /\ ret' = Ret("_apply_adaptive_threshold", ret.val, AdaptiveKeep(ret.val))
    /\ UNCHANGED <<index, num_vectors, file, rows, fs, run, cancel, issued>>

\* the score lists a cosine search hands to the filter: best first
RECURSIVE DescendingLists(_)
DescendingLists(n) ==
    IF n = 0 THEN {<<>>}
    ELSE UNION {{<<v>> \o sl :
                    sl \in {t \in DescendingLists(n - 1) : t = <<>> \/ v >= t[1]}}
                : v \in ScoreVals}

\* long result lists: n scores, the first a of them 0.95, the next b - a of
\* them 0.90, the others 0.40
MaxLongScores == 22

LongScoreLists ==
    {[j \in 1..n |-> IF j <= a THEN 95 ELSE IF j <= b THEN 90 ELSE 40] :
        n \in (MaxScores + 1)..MaxLongScores, a \in 0..MaxLongScores, b \in 0..MaxLongScores}

ScoreLists == UNION {DescendingLists(n) : n \in 0..MaxScores} \cup LongScoreLists

AdaptiveInit ==
    /\ index = <<>>
    /\ num_vectors = 0
    /\ file = [st |-> "missing", data |-> <<>>]
    /\ rows = {}
    /\ fs = [p \in AbsPaths |-> "ok"]
    /\ run = IdleRun
    /\ cancel = FALSE
    /\ issued = [clear |-> -1, load |-> -1]
    /\ ret \in {Ret("scores", NoneV, sl) : sl \in ScoreLists}

AdaptiveNext == ApplyAdaptiveThreshold

AdaptiveSpec == AdaptiveInit /\ [][AdaptiveNext]_vars

\* -------------------------------------------------------- SearchEngine
\* SearchEngine.search(query, top_k, threshold, filter_tags,
\* adaptive_threshold) on stores holding any embeddings and any rows the
\* table's constraints allow
MaxEngineLen == 4

DefaultTopK == 20
DefaultThreshold == 0
OverFetch == 3

\* queries: two that describe an image, the empty string, a blank
EngineQueries == Queries \cup {"", " "}
\* top_k: 0 stands for None and for 0, which `top_k or default` treats alike
TopKArgs == {0, 1, 2}
\* filter_tags: None, or a list of one tag
FilterTagArgs == {NoneV, "t"}

\* str.strip()
Strip(q) == IF q \in {"", " "} THEN "" ELSE q

\* top_k = top_k or self.default_top_k
SETopK(top_k) == IF top_k = 0 THEN DefaultTopK ELSE top_k

\* threshold = threshold or self.similarity_threshold
SEThreshold(threshold) == IF threshold = 0 THEN DefaultThreshold ELSE threshold

\* steps 2 and 3: the (id, score) pairs of vector_store.search(top_k * 3),
\* cut by the adaptive filter when it is on and there is more than one
SECandidates(metric, idx, nv, q, top_k, threshold, adaptive) ==
    LET found == VSSearchResult(metric, idx, nv, q, SETopK(top_k) * OverFetch,
                                SEThreshold(threshold))
        keep == IF adaptive /\ Len(found.scores) > 1
                THEN AdaptiveKeep(found.scores)
                ELSE FirstIndices(Len(found.scores))
    IN  [i \in 1..Len(keep) |-> <<found.ids[keep[i] + 1], found.scores[keep[i] + 1]>>]

\* MetadataStore.get(vector_id) finds a row
MDHas(rs, vid) == \E r \in rs : r.vector_id = vid

MDGet(rs, vid) == CHOOSE r \in rs : r.vector_id = vid

\* the tag filter: no filter, or the row has tags and one of them is asked for
TagPasses(metadata, filter_tags) ==
    filter_tags = NoneV \/ (metadata.tags # NoneV /\ metadata.tags = filter_tags)

SEResult(vid, score, metadata) ==
    [vector_id |-> vid, score |-> score,
     file_path |-> metadata.file_path, tags |-> metadata.tags]

\* step 4: the loop over zip(vector_ids, scores)
RECURSIVE SEHydrate(_, _, _, _, _, _)
SEHydrate(cands, i, rs, filter_tags, top_k, results) ==
    IF i > Len(cands) THEN results
    ELSE IF ~MDHas(rs, cands[i][1])
    THEN SEHydrate(cands, i + 1, rs, filter_tags, top_k, results)
    ELSE IF ~TagPasses(MDGet(rs, cands[i][1]), filter_tags)
    THEN SEHydrate(cands, i + 1, rs, filter_tags, top_k, results)
    ELSE IF Len(results) + 1 >= top_k
    THEN Append(results, SEResult(cands[i][1], cands[i][2], MDGet(rs, cands[i][1])))
    ELSE SEHydrate(cands, i + 1, rs, filter_tags, top_k,
            Append(results, SEResult(cands[i][1], cands[i][2], MDGet(rs, cands[i][1]))))

\* the list search returns: nothing for a blank query, else the hydrated
\* candidates (none when the vector search found nothing)
SEEmptyQuery_Searches(q) == FALSE

SEEmptyQuery(q) == Strip(q) = ""

SESearchResults(metric, idx, nv, rs, q, top_k, threshold, filter_tags, adaptive) ==
    IF SEEmptyQuery(q) THEN <<>>
    ELSE SEHydrate(SECandidates(metric, idx, nv, q, top_k, threshold, adaptive),
                   1, rs, filter_tags, SETopK(top_k), <<>>)

SESearch(metric, q, top_k, threshold, filter_tags, adaptive) ==
    /\ ret' = Ret("se_search",
                  [metric |-> metric, q |-> q, top_k |-> top_k, threshold |-> threshold,
                   filter_tags |-> filter_tags, adaptive |-> adaptive],
                  SESearchResults(metric, index, num_vectors, rows, q, top_k,
                                  threshold, filter_tags, adaptive))
    /\ UNCHANGED <<index, num_vectors, file, rows, fs, run, cancel, issued>>

\* the stores a search can meet: the embeddings of any images up to
\* MaxEngineLen, and any rows with distinct vector_ids and distinct file_paths
EngineIndexInputs ==
    UNION {[1..n -> AbsPaths] : n \in 0..MaxEngineLen}

EngineRowInputs ==
    {rs \in SUBSET {Row(vid, p, t, NoneV) :
                       vid \in 0..(MaxEngineLen - 1), p \in AbsPaths, t \in TagVals} :
        \A r1 \in rs, r2 \in rs :
            (r1.vector_id = r2.vector_id \/ r1.file_path = r2.file_path) => r1 = r2}

EngineInit ==
    /\ index \in EngineIndexInputs
    /\ num_vectors = Len(index)
    /\ file = [st |-> "ok", data |-> index]
    /\ rows \in EngineRowInputs
    /\ fs = [p \in AbsPaths |-> "ok"]
    /\ run = IdleRun
    /\ cancel = FALSE
    /\ issued = [clear |-> -1, load |-> -1]
    /\ ret = Ret("init", NoneV, NoneV)

\* one call of search on each store
EngineNext ==
    /\ ret.op = "init"
    /\ \E metric \in Metrics, q \in EngineQueries, top_k \in TopKArgs,
          threshold \in Thresholds, filter_tags \in FilterTagArgs, adaptive \in BOOLEAN :
           SESearch(metric, q, top_k, threshold, filter_tags, adaptive)

EngineSpec == EngineInit /\ [][EngineNext]_vars

\* ---------------------------------------------- the application window
\* the search box: search(query, top_k=50, adaptive_threshold=True), threshold
\* and filter_tags left at None
GuiTopK == 50

GuiSearch(metric, q) == SESearch(metric, q, GuiTopK, 0, NoneV, TRUE)

\* MainWindow._clear_database, MainWindowQt._delete_index:
\* vector_store.clear() and metadata_store.clear(); neither looks at the
\* ingestion thread
ClearDatabase ==
    /\ index' = <<>>
    /\ num_vectors' = 0
    /\ issued' = [clear |-> -1, load |-> -1]
    /\ rows' = MDClearRows(rows)
    /\ ret' = Ret("clear_database", NoneV, NoneV)
    /\ UNCHANGED <<file, fs, run, cancel>>

\* searches from the window while index_directory runs on its thread, the
\* process dying and restarting in between
ConcNext ==
    \/ \E skip_existing \in BOOLEAN, clean_missing \in BOOLEAN :
          IDStart(TRUE, skip_existing, clean_missing, {})
    \/ IDBatchAdd(FALSE)
    \/ \E dbfail \in BOOLEAN : IDBatchMeta(dbfail)
    \/ IDSave(TRUE)
    \/ Crash(FALSE)
    \/ \E metric \in Metrics, q \in Queries : GuiSearch(metric, q)

ConcSpec == Init /\ [][ConcNext]_vars

\* the window's commands while index_directory runs on its thread
GuiNext ==
    \/ \E skip_existing \in BOOLEAN : IDStart(TRUE, skip_existing, TRUE, {})
    \/ IDBatchAdd(FALSE)
    \/ \E dbfail \in BOOLEAN : IDBatchMeta(dbfail)
    \/ IDSave(TRUE)
    \/ CancelClicked
    \/ ClearDatabase
    \/ \E p \in AbsPaths : FileDeleted(p)

GuiSpec == Init /\ [][GuiNext]_vars

\* ------------------------------------------ a directory of twelve images
\* a fresh installation pointed at a directory of twelve image files of which
\* two do not decode; index_directory with its default validate=True and
\* skip_existing=True, no storage failure
E2ECorrupt == 2

E2EFiles == {E2EListing[j] : j \in 1..Len(E2EListing)}

E2EInit ==
    /\ index = <<>>
    /\ num_vectors = 0
    /\ file = [st |-> "missing", data |-> <<>>]
    /\ rows = {}
    /\ fs \in {f \in [E2EFiles -> {"ok", "bad"}] :
                 Cardinality({p \in E2EFiles : f[p] = "bad"}) = E2ECorrupt}
    /\ run = IdleRun
    /\ cancel = FALSE
    /\ issued = [clear |-> -1, load |-> -1]
    /\ ret = Ret("init", NoneV, NoneV)

E2ENext ==
    \/ \E clean_missing \in BOOLEAN : IDStart(TRUE, TRUE, clean_missing, {})
    \/ IDBatchAdd(FALSE)
    \/ IDBatchMeta(FALSE)
    \/ IDSave(TRUE)

E2ESpec == E2EInit /\ [][E2ENext]_vars

\* ================================================================ claims
IsPrefix(s, t) == Len(s) <= Len(t) /\ SubSeq(t, 1, Len(s)) = s

VectorIds == 0..(MaxVectors - 1)

\* C1: VectorStore.add of N vectors on a store with prior count C returns
\* exactly the ids C, C+1, ..., C+N-1 in order, and the count becomes C+N.
C1_AddReturnsContiguousIds ==
    [][ret'.op = "vs_add" =>
         \A vecs \in AddInputs :
         VSAdd(vecs) =>
           /\ Len(ret'.val) = Len(vecs)
           /\ \A j \in 1..Len(vecs) : ret'.val[j] = num_vectors + (j - 1)
           /\ num_vectors' = num_vectors + Len(vecs)
           /\ Len(index') = num_vectors']_vars

C1_Witness ==
    ret.op = "vs_add" /\ ret.arg = 1 /\ ret.val = <<1>> /\ num_vectors = 2

\* C2 as stated: with no clear() in between (save and load allowed), every id
\* an add returns is greater than every id an earlier add returned.
C2_IdsNeverReusedAcrossLoad ==
    [][\A vecs \in AddInputs :
         VSAdd(vecs) => \A j \in 1..Len(ret'.val) : ret'.val[j] > issued.clear]_vars

\* C2 amended: with no clear() and no load() in between, every id an add
\* returns is greater than every id an earlier add returned, and the ids of
\* one add are strictly increasing.
C2_IdsNeverReusedWithoutLoad ==
    [][\A vecs \in AddInputs :
         VSAdd(vecs) =>
           /\ \A j \in 1..Len(ret'.val) : ret'.val[j] > issued.load
           /\ \A j \in 1..(Len(ret'.val) - 1) : ret'.val[j] < ret'.val[j + 1]]_vars

C2_Witness ==
    ret.op = "vs_add" /\ ret.val = <<1>> /\ issued.load = 1 /\ file.st = "ok"

DeleteOrCleanStep ==
    /\ ret'.op \in {"md_delete", "clean_missing"}
    /\ \/ \E vid \in VectorIds, dbfail \in BOOLEAN : MDDelete(vid, dbfail)
       \/ \E dry_run \in BOOLEAN, failing \in SUBSET VectorIds :
             CleanMissing(dry_run, failing)

\* C3 as stated: MetadataStore.delete and clean_missing leave the index
\* unchanged, and the vector count decreases under no operation but clear().
C3_CountShrinksOnlyOnClear ==
    [][/\ DeleteOrCleanStep => UNCHANGED <<index, num_vectors>>
       /\ (num_vectors' < num_vectors \/ Len(index') < Len(index)) => VSClear]_vars

\* C3 amended: MetadataStore.delete and clean_missing leave the index
\* unchanged, and the vector count decreases under no operation but clear()
\* and a load() of a saved index that holds fewer vectors.
C3_CountShrinksOnlyOnClearOrLoad ==
    [][/\ DeleteOrCleanStep => UNCHANGED <<index, num_vectors>>
       /\ (num_vectors' < num_vectors \/ Len(index') < Len(index)) =>
             \/ VSClear
             \/ VSLoad /\ file.st = "ok" /\ Len(file.data) < num_vectors]_vars

C3_Witness ==
    /\ ret.op = "clean_missing" /\ ret.arg = FALSE /\ ret.val.removed = 1
    /\ num_vectors = 2 /\ Len(index) = 2

\* C4: MetadataStore.add with a file_path that is already recorded returns
\* False and leaves every row as it was.
C4_DuplicatePathRejected ==
    [][(ret'.op = "md_add" /\ \E r \in rows : r.file_path = Absolute(ret'.arg)) =>
         \A vid \in VectorIds, t \in TagVals, dbfail \in BOOLEAN :
           MDAdd(vid, ret'.arg, t, NoneV, dbfail)
             => (ret'.val = FALSE /\ rows' = rows
                 /\ Cardinality(rows') = Cardinality(rows))]_vars

C4_Witness ==
    /\ ret.op = "md_add" /\ ret.val = FALSE /\ ret.arg \in RelPaths
    /\ \E r \in rows : r.file_path = Absolute(ret.arg) /\ r.vector_id = 1
    /\ Cardinality(rows) = 1

\* C5: the table never holds two rows with the same file_path, nor two rows
\* with the same vector_id.
C5_OneRowPerPathAndId ==
    \A r1 \in rows, r2 \in rows :
        (r1.file_path = r2.file_path \/ r1.vector_id = r2.vector_id) => r1 = r2

C5_Witness ==
    /\ Cardinality(rows) = 2
    /\ \E r \in rows : r.tags = "t" /\ r.description = "d"
    /\ ret.op = "md_add_batch" /\ ret.val = 1

\* C6 as stated: after a crash during an index_directory run that started
\* from stores in sync, the restarted process has every row's vector_id inside
\* the restored index and no more rows than vectors.
C6_CrashLeavesIndexAhead ==
    [][((\E torn \in BOOLEAN : Crash(torn)) /\ run.pc # "idle" /\ run.synced)
         => /\ \A r \in rows' : r.vector_id < num_vectors'
            /\ Cardinality(rows') <= num_vectors']_vars

RunStep ==
    \/ \E raises \in BOOLEAN : IDBatchAdd(raises)
    \/ \E dbfail \in BOOLEAN : IDBatchMeta(dbfail)
    \/ \E write_ok \in BOOLEAN : IDSave(write_ok)

\* C7 as stated: once cancellation is requested the run starts no further
\* batch, and its later steps keep every vector and row committed so far.
C7_CancelStopsBeforeNextBatch ==
    [][(cancel /\ RunStep)
         => /\ ~(\E raises \in BOOLEAN : IDBatchAdd(raises))
            /\ IsPrefix(index, index')
            /\ rows \subseteq rows']_vars

\* C8: clean_missing(dry_run=True) changes neither the table nor the index
\* nor the index file, whatever files are missing.
C8_DryRunChangesNothing ==
    [][ret'.op = "clean_missing" =>
         \A failing \in SUBSET VectorIds :
           CleanMissing(TRUE, failing) => UNCHANGED <<rows, index, num_vectors, file>>]_vars

C8_Witness ==
    /\ ret.op = "clean_missing" /\ ret.arg = TRUE
    /\ ret.val.missing = 1 /\ ret.val.scanned = 2
    /\ Cardinality(MissingRows(rows)) = 1

CleanTallies(res, rs) ==
    /\ res.removed + res.failed = res.missing
    /\ res.remaining = res.scanned - res.removed
    /\ res.remaining = Cardinality(rs)

\* C9 as stated: clean_missing(dry_run=False) leaves no row whose file was
\* missing, leaves the other rows unchanged, and removed + failed = missing,
\* remaining = scanned - removed = count().
C9_CleanRemovesEveryMissingRow ==
    [][ret'.op = "clean_missing" =>
         \A failing \in SUBSET VectorIds :
         CleanMissing(FALSE, failing) =>
           /\ MissingRows(rows') = {}
           /\ rows \ MissingRows(rows) \subseteq rows'
           /\ rows' \subseteq rows
           /\ CleanTallies(ret'.val, rows')]_vars

\* C9 amended: clean_missing(dry_run=False) removes exactly the rows whose
\* file was missing and whose delete() succeeded: the rows with a missing file
\* that remain are the `failed` ones, the other rows are unchanged, and
\* removed + failed = missing, remaining = scanned - removed = count().
C9_CleanRemovesDeletedMissingRows ==
    [][ret'.op = "clean_missing" =>
         \A failing \in SUBSET VectorIds :
         CleanMissing(FALSE, failing) =>
           /\ MissingRows(rows') = {r \in MissingRows(rows) : r.vector_id \in failing}
           /\ Cardinality(MissingRows(rows')) = ret'.val.failed
           /\ rows \ MissingRows(rows) \subseteq rows'
           /\ rows' \subseteq rows
           /\ CleanTallies(ret'.val, rows')]_vars

C9_Witness ==
    /\ ret.op = "clean_missing" /\ ret.arg = FALSE
    /\ ret.val.removed = 1 /\ ret.val.failed = 1
    /\ Cardinality(rows) = 1

\* C10: get_orphaned_vectors() returns max(0, vector_count - metadata_count),
\* so it is never negative, also when the table holds more rows than the
\* index holds vectors.
C10_OrphanCountClamped ==
    ret.op = "get_orphaned_vectors" =>
        /\ ret.val >= 0
        /\ ret.val = IF num_vectors >= Cardinality(rows)
                     THEN num_vectors - Cardinality(rows) ELSE 0

C10_Witness ==
    /\ ret.op = "get_orphaned_vectors" /\ ret.val = 0
    /\ Cardinality(rows) = 2 /\ num_vectors = 1

\* C11: indexing a fresh store from a directory of 10 valid and 2 corrupt
\* images with skip_existing=True returns found=12, valid=10, failed=2, new=10,
\* processed=10 and leaves 10 vectors and 10 rows; index_directory called again
\* right after a return reports found=12, new=0, processed=0 and adds no vector
\* and no row.
C11_FirstRunThenNothingNew ==
    [][/\ IDSave(TRUE) =>
            /\ ret'.val = [found |-> 12, valid |-> 10, new |-> 10, processed |-> 10,
                           failed |-> 2, cleaned |-> 0]
            /\ num_vectors' = 10
            /\ Cardinality(rows') = 10
       /\ (ret.op = "index_directory"
             /\ \E clean_missing \in BOOLEAN : IDStart(TRUE, TRUE, clean_missing, {})) =>
            /\ ret'.op = "index_directory"
            /\ ret'.val.found = 12 /\ ret'.val.valid = 10 /\ ret'.val.failed = 2
            /\ ret'.val.new = 0 /\ ret'.val.processed = 0
            /\ UNCHANGED <<index, num_vectors, rows>>]_vars

C11_Witness ==
    /\ ret.op = "index_directory" /\ ret.val.found = 12 /\ ret.val.new = 0
    /\ num_vectors = 10 /\ Cardinality(rows) = 10 /\ file.st = "ok"

\* C12: when the encoder or the index raises for one batch, the run is not
\* ended: the batch adds no vector and no metadata row, the counters are kept,
\* and the run stands at the batch that follows (which is attempted next) or,
\* after the last batch, goes on to save.
C12_FailedBatchIsSkipped ==
    [][IDBatchAdd(TRUE) =>
         /\ rows' = rows
         /\ index' = index /\ num_vectors' = num_vectors
         /\ run'.pc = "batch"
         /\ run'.paths = run.paths
         /\ run'.stats = run.stats
         /\ run'.i = run.i + BatchSize
         /\ run'.i < Len(run'.paths) =>
               BatchPaths(run') = SubSeq(run.paths, run.i + BatchSize + 1,
                                         Min(run.i + 2 * BatchSize, Len(run.paths)))]_vars

\* the first batch failed and the second one has been encoded and added
C12_Witness ==
    /\ run.pc = "meta" /\ run.i = BatchSize /\ Len(run.paths) > BatchSize
    /\ rows = {} /\ num_vectors = Len(BatchPaths(run)) /\ file.st = "missing"
    /\ run.stats.processed = 0

\* C13 as stated: an image the encoder could not open inside a batch (its
\* vector is the placeholder) is counted in the run's failed count and not in
\* its processed count.
C13_PlaceholderCountedFailed ==
    [][\A dbfail \in BOOLEAN :
         (IDBatchMeta(dbfail) /\ index[run.vector_ids[run.k] + 1] = ZeroVec)
           => /\ run'.stats.processed = run.stats.processed
              /\ run'.stats.failed >= 1]_vars

StatsRecord(st) ==
    /\ DOMAIN st = {"found", "valid", "new", "processed", "failed", "cleaned"}
    /\ st.found = st.valid + st.failed
    /\ st.new <= st.valid
    /\ 0 <= st.processed /\ st.processed <= st.new
    /\ 0 <= st.failed /\ 0 <= st.cleaned

\* C14: index_directory returns a stats record without raising whatever files
\* are invalid, whatever images fail inside a batch and whatever batches fail
\* in the encoder, the index or the table: a call that finds nothing to do
\* returns its stats at once, a started run ends only by returning its stats
\* (the process dying and the write of the index file failing aside), and
\* until then it always has a next step.
C14_AlwaysReturnsStats ==
    [][/\ (run.pc = "idle" /\ ret'.op = "index_directory" /\ ret' # ret)
            => StatsRecord(ret'.val)
       /\ (/\ run.pc # "idle" /\ run'.pc = "idle"
           /\ ~(\E torn \in BOOLEAN : Crash(torn))
           /\ ~IDSave(FALSE))
            => (IDSave(TRUE) /\ ret'.op = run.entry /\ StatsRecord(ret'.val))
       /\ run'.pc = "meta" =>
             (run'.k \in 1..Len(run'.vector_ids) /\ Len(run'.vector_ids) = Len(BatchPaths(run')))
       /\ run'.pc \in {"idle", "batch", "meta"}]_vars

\* a run returned its stats although one file was invalid and the metadata
\* add of the one new image failed
C14_Witness ==
    /\ ret.op = "index_directory" /\ run.pc = "idle"
    /\ ret.val.failed = 1 /\ ret.val.new = 1 /\ ret.val.processed = 0
    /\ num_vectors = 1 /\ rows = {}

\* every vector of the index has exactly one row, and no row is without one
OneRowPerVector(idx, nv, rs) ==
    /\ Len(idx) = nv
    /\ \A r \in rs : r.vector_id \in 0..(nv - 1)
    /\ \A vid \in 0..(nv - 1) : Cardinality({r \in rs : r.vector_id = vid}) = 1

C16_SingleImageAllOrNothing ==
    [][ret'.op = "index_single_image" =>
         \A raises \in BOOLEAN, dbfail \in BOOLEAN :
         IndexSingleImage(ret'.arg, raises, dbfail) =>
           /\ ret'.val = TRUE =>
                 /\ index' = Append(index, Absolute(ret'.arg))
                 /\ num_vectors' = num_vectors + 1
                 /\ rows' = rows \cup {Row(num_vectors, Absolute(ret'.arg), NoneV, NoneV)}
                 /\ Cardinality(rows') = Cardinality(rows) + 1
           /\ ret'.val = FALSE => UNCHANGED <<index, num_vectors, rows>>]_vars


\* C19 as stated: VectorStore.search(query, k) returns at most k (id, score)
\* pairs, none with id -1, the scores non-increasing with a higher score for
\* a more similar vector, in cosine mode and in l2 mode; on an empty index it
\* returns empty lists.
C19_SearchOrderedBySimilarity ==
    ret.op = "vs_search" =>
        LET ids == ret.val.ids
            scores == ret.val.scores
        IN  /\ Len(ids) = Len(scores)
            /\ Len(ids) <= ret.arg.top_k
            /\ \A i \in 1..Len(ids) : ids[i] \in 0..(num_vectors - 1)
            /\ \A i \in 1..Len(ids), j \in 1..Len(ids) :
                  /\ i < j => scores[i] >= scores[j]
                  /\ scores[i] > scores[j] =>
                        Sim(ret.arg.q, index[ids[i] + 1]) > Sim(ret.arg.q, index[ids[j] + 1])
            /\ index = <<>> => ids = <<>>

\* C17: save followed by load is a round trip.  save writes the vectors the
\* index holds; a load of the saved file gives an index with the same
\* vectors and the same count, which answers every search as the saved index
\* did; loading right after saving changes nothing; and the add after a load
\* returns ids that continue from the loaded count.
C17_SaveLoadRoundTrip ==
    [][/\ VSSave => (file'.st = "ok" /\ file'.data = index /\ Len(file'.data) = num_vectors)
       /\ (VSLoad /\ file.st = "ok") =>
             /\ index' = file.data
             /\ num_vectors' = Len(file.data)
             /\ \A metric \in Metrics, q \in Queries, k \in TopKs :
                   VSSearchResult(metric, index', num_vectors', q, k, 0)
                     = VSSearchResult(metric, file.data, Len(file.data), q, k, 0)
       /\ (VSLoad /\ ret.op = "vs_save") => UNCHANGED <<index, num_vectors>>
       /\ (ret.op = "vs_load" /\ ret'.op = "vs_add" /\ file.st = "ok") =>
             \A vecs \in AddInputs :
                 VSAdd(vecs) => ret'.val = [j \in 1..Len(vecs) |-> Len(file.data) + j - 1]]_vars

\* one vector was saved, a second one added, and the load brought the saved
\* index back
C17_Witness ==
    /\ ret.op = "vs_load" /\ file.st = "ok" /\ Len(file.data) = 1
    /\ index = file.data /\ num_vectors = 1 /\ issued.clear = 1

\* C18: a start of the application that finds the index file missing or
\* unreadable does not fail, and the application then runs on an empty index
\* (vector_count = 0), whatever the file and the table hold.
C18_FailedLoadStartsEmpty ==
    [][\A torn \in BOOLEAN :
         (Crash(torn) /\ file'.st # "ok")
           => (ret'.op = "restart" /\ index' = <<>> /\ num_vectors' = 0)]_vars

\* the process died while writing an index of one vector and was restarted
C18_Witness ==
    /\ ret.op = "restart" /\ file.st = "corrupt" /\ file.data # <<>>
    /\ index = <<>> /\ num_vectors = 0 /\ rows # {}

\* the literal rule: a score stops the prefix when it is below band x top
\* (band 0.80 if top > 0.7, 0.70 if top > 0.5, else 0.60) or when it is more
\* than 0.08 below its predecessor
LiteralStop(scores, i) ==
    \/ 100 * scores[i]
          < (IF scores[1] > 70 THEN 80 ELSE IF scores[1] > 50 THEN 70 ELSE 60) * scores[1]
    \/ i > 1 /\ scores[i - 1] - scores[i] > 8

LiteralPrefixLen(scores) ==
    IF \E i \in 1..Len(scores) : LiteralStop(scores, i)
    THEN (CHOOSE i \in 1..Len(scores) :
             LiteralStop(scores, i) /\ \A j \in 1..(i - 1) : ~LiteralStop(scores, j)) - 1
    ELSE Len(scores)

\* C20: for a descending score list with more than one candidate, the indices
\* the loop of the adaptive filter keeps (before the forced minimum, and up to
\* the cap) are exactly the prefix that ends just before the first score that
\* is below band x top or that dropped more than 0.08 from its predecessor;
\* the indices returned start with that prefix.
C20_KeptIsLiteralPrefix ==
    (ret.op = "_apply_adaptive_threshold" /\ Len(ret.arg) > 1) =>
        /\ AdaptiveLoop(ret.arg, 1, <<>>)
              = FirstIndices(Min(LiteralPrefixLen(ret.arg), 20))
        /\ IsPrefix(FirstIndices(Min(LiteralPrefixLen(ret.arg), 20)), ret.val)

\* the prefix ended by the band (75 < 0.80 x 95) with no gap above 0.08
C20_Witness ==
    /\ ret.op = "_apply_adaptive_threshold"
    /\ ret.arg = <<95, 87, 79, 75>>
    /\ ret.val = <<0, 1, 2>>

\* C21: the list the adaptive filter returns has at most 20 entries for every
\* input, and when the input has at least 3 scores it has at least 3 entries,
\* the first 3 candidates among them; so it never has 1 or 2 entries when 3
\* or more candidates exist.
C21_KeptSizeBounds ==
    ret.op = "_apply_adaptive_threshold" =>
        /\ Len(ret.val) <= 20
        /\ Len(ret.arg) >= 3 =>
              /\ Len(ret.val) >= 3
              /\ IsPrefix(<<0, 1, 2>>, ret.val)
              /\ Len(ret.val) \notin {1, 2}

\* 22 candidates, all within the band and without a gap: the cap cut the list
C21_Witness ==
    /\ ret.op = "_apply_adaptive_threshold"
    /\ Len(ret.arg) = 22 /\ ret.arg[22] = 90
    /\ ret.val = FirstIndices(20)

\* C22 as stated: for the scores 0.95, 0.93, 0.40, 0.38 the band is 0.76, 0.93
\* is kept, 0.40 is rejected on the relative threshold, and the result is
\* exactly the first 2 entries.
C22_ResultIsFirstTwo ==
    (ret.op = "_apply_adaptive_threshold" /\ ret.arg = <<95, 93, 40, 38>>) =>
        /\ AdaptiveBand(95) * 95 = 7600
        /\ ~GapTooBig(ret.arg, 2) /\ 100 * 93 >= AdaptiveBand(95) * 95
        /\ 100 * 40 < AdaptiveBand(95) * 95
        /\ ret.val = <<0, 1>>

\* C22 amended: for the scores 0.95, 0.93, 0.40, 0.38 the band is 0.76, 0.93
\* is kept, 0.40 is rejected on the relative threshold, so the loop keeps the
\* first 2 entries; 4 candidates exist, so the result is the first 3 entries.
C22_LoopKeepsTwoResultIsFirstThree ==
    (ret.op = "_apply_adaptive_threshold" /\ ret.arg = <<95, 93, 40, 38>>) =>
        /\ AdaptiveBand(95) * 95 = 7600
        /\ ~GapTooBig(ret.arg, 2) /\ 100 * 93 >= AdaptiveBand(95) * 95
        /\ 100 * 40 < AdaptiveBand(95) * 95
        /\ AdaptiveLoop(ret.arg, 1, <<>>) = <<0, 1>>
        /\ ret.val = <<0, 1, 2>>

C22_Witness ==
    /\ ret.op = "_apply_adaptive_threshold"
    /\ ret.arg = <<95, 93, 40, 38>>
    /\ Len(ret.val) = 3

\* the candidates of a search that have a row passing the tag filter: the
\* vector search for 3 x top_k, cut to the prefix the adaptive filter keeps
LiveCandidates(a) ==
    LET found == VSSearchResult(a.metric, index, num_vectors, a.q,
                                3 * SETopK(a.top_k), SEThreshold(a.threshold))
        n == IF a.adaptive /\ Len(found.ids) > 1
             THEN Len(AdaptiveKeep(found.scores)) ELSE Len(found.ids)
    IN  SelectSeq([i \in 1..n |-> <<found.ids[i], found.scores[i]>>],
                  LAMBDA c : \E r \in rows :
                      /\ r.vector_id = c[1]
                      /\ a.filter_tags # NoneV => r.tags = a.filter_tags)

\* C23 as stated: SearchEngine.search takes its candidates from a vector
\* search for 3 x top_k, returns at most top_k results in non-increasing score
\* order, each with the metadata row of its vector_id; a candidate without a
\* row is skipped and the candidates after it are still returned.
C23_SearchHydratesTopK ==
    (ret.op = "se_search" /\ Strip(ret.arg.q) # "") =>
        LET res == ret.val
            live == LiveCandidates(ret.arg)
        IN  /\ Len(res) <= SETopK(ret.arg.top_k)
            /\ \A i \in 1..Len(res), j \in 1..Len(res) :
                  i < j => res[i].score >= res[j].score
            /\ \A i \in 1..Len(res) :
                  \E r \in rows : /\ r.vector_id = res[i].vector_id
                                  /\ r.file_path = res[i].file_path
            /\ Len(res) = Min(SETopK(ret.arg.top_k), Len(live))
            /\ \A i \in 1..Len(res) :
                  res[i].vector_id = live[i][1] /\ res[i].score = live[i][2]

C30_LiveImageIsFound ==
    (/\ ret.op = "se_search" /\ Strip(ret.arg.q) # ""
     /\ ret.arg.filter_tags = NoneV /\ ret.arg.threshold = 0
     /\ \E r \in rows : r.vector_id < num_vectors)
        => ret.val # <<>>

\* C25 as stated: a search interleaved at any point with an index_directory
\* run (between vector_store.add and the metadata adds of a batch included)
\* returns only results whose vector_id has a metadata row, and each result
\* carries the file_path of the image whose embedding that vector is.
C25_ConcurrentSearchIsConsistent ==
    ret.op = "se_search" =>
        \A i \in 1..Len(ret.val) :
            /\ \E r \in rows : /\ r.vector_id = ret.val[i].vector_id
                              /\ r.file_path = ret.val[i].file_path
            /\ ret.val[i].vector_id < Len(index)
            /\ index[ret.val[i].vector_id + 1] = ret.val[i].file_path

\* C26 as stated: no store-mutating command of the window takes effect while
\* an index_directory run is in progress.
C26_SingleWriter ==
    [][ClearDatabase => run.pc = "idle"]_vars

\* C27 as stated: in every reachable state get_orphaned_vectors() is the
\* number of vector ids in [0, vector_count) without a metadata row, and a
\* report with is_healthy = true implies that every vector has a row and that
\* every row's vector_id is below vector_count.
C27_OrphanCountIsExact ==
    /\ OrphanCount(num_vectors, Cardinality(rows))
          = Cardinality({vid \in 0..(num_vectors - 1) : ~MDHas(rows, vid)})
    /\ IntegrityReport(num_vectors, rows).is_healthy =>
          /\ \A vid \in 0..(num_vectors - 1) : MDHas(rows, vid)
          /\ \A r \in rows : r.vector_id < num_vectors

\* C28 as stated: the batch stage of index_directory keeps the two stores in
\* step for any options and any starting state: every metadata add it makes,
\* each for a vector the batch has just added to the index, adds a row and
\* counts it in stats.processed, so the vectors a run adds are as many as the
\* rows it adds and vector_count - metadata_count does not grow.
C28_BatchKeepsStoresInStep ==
    [][(run.pc = "meta" /\ run'.pc \in {"meta", "batch"} /\ run' # run) =>
          /\ Cardinality(rows') = Cardinality(rows) + 1
          /\ run'.stats.processed = run.stats.processed + 1
          /\ num_vectors' - Cardinality(rows')
                < num_vectors - Cardinality(rows)]_vars

\* C29 as stated: whenever index_directory or reindex_all has returned
\* normally, the index file holds exactly the index in memory, with the same
\* vector count (a missing file counting as an empty index), the early
\* returns and reindex_all after its two clears included.
C29_FileHoldsIndexOnReturn ==
    ret.op \in {"index_directory", "reindex_all"} =>
        /\ RestoredIndex(file) = index
        /\ Len(RestoredIndex(file)) = num_vectors
====
